---- MODULE Spec2Model ----
(***************************************************************************)
(* Asynchronous batch mode of the legacy splitter client                   *)
(* (tools/api/lalalai_splitter.py): batch_process_async uploads every file *)
(* of a directory, batch_split_async submits the uploaded identifiers in   *)
(* one request and seeds the registry (batch_status), batch_check polls    *)
(* check_multiple_files until every record is finished and prints the      *)
(* report, batch_download fetches the result tracks.                       *)
(*                                                                         *)
(* The program is one thread; pc is its position.  The remote service is   *)
(* the environment: every upload, submit, status check and download draws  *)
(* its outcome from a small set.  A dictionary key that may be missing is  *)
(* an optional value: <<>> when the key is absent, <<v>> when it holds v.  *)
(***************************************************************************)
EXTENDS Integers, Sequences, FiniteSets, TLC

\* Bounds of the model.
MaxFiles == 2
MaxPolls == 3
MaxTracks == 2

VARIABLES
    pc,             \* position of the run
    n_files,        \* number of regular files in the input directory
    next_file,      \* index of the next file of files_in_dir to upload
    upload_attempts,\* file -> number of upload_file calls made for it
    upload_failed,  \* files whose upload raised
    files_ids,      \* batch_process_async: identifiers of the uploaded files
    submit_calls,   \* number of batch_split_files requests issued
    submitted,      \* <<files_ids>> carried by the submit request, <<>> before
    submit_status,  \* answer to the submit request: none, accepted, rejected
    batch_status,   \* the registry: file id -> record
    now,            \* time.perf_counter(), one tick per poll iteration
    check_calls,    \* number of status requests issued
    last_check,     \* outcome of the latest status request
    last_query,     \* identifiers the latest status request asked for
    cursor,         \* check_multiple_files: position in the response
    response,       \* check_result["result"] of the latest whole call, when kept
    report,         \* <<what batch_check printed>>, <<>> before
    next_download,  \* batch_download: index of the next record to visit
    downloads,      \* <<file id, track type>> -> number of download attempts
    download_failed,\* <<file id, track type>> whose download raised
    fault,          \* the exception that ended the run, "none" otherwise
    \* synchronous mode (batch_process) of the legacy and of the v1 splitter
    api,            \* the client that runs: "legacy" or "v1"
    delete_opt,     \* v1: the --delete option
    sync_n,         \* number of regular files in the input directory
    cur,            \* index of the file batch_process is at
    processed,      \* file -> number of calls of batch_process_for_file
    failed_at,      \* file -> the step whose exception ended it, "none"
    trace,          \* the steps of the current file so far: <<step, outcome>>
    polls,          \* status requests of the current check_file / check_task
    observed,       \* what the latest status request observed
    tracks,         \* <<number of tracks of the result>>, <<>> without tracks
    dl,             \* index of the next track to download
    delete_requests,\* file -> number of delete_tracks requests for its source
    \* v1 splitter: the options and the split request of main
    stem_opt,       \* --stem
    multivocal,     \* --multivocal: <<>> or <<"lead_back">>
    dereverb_enabled,\* --dereverb-enabled
    splitter,       \* --splitter: <<>> or <<name>>
    split_request,  \* <<[endpoint, presets]>> once posted, <<>> before
    \* voice training (lalalai_voice_train.py)
    minutes_passed, \* check_training_status: the loop counter
    train_requests, \* number of status requests issued
    train_observed, \* what the latest status request observed
    voice_pack_id,  \* what check_training_status returned: <<>> is None
    activate_calls  \* number of activate_voice_pack requests

upload_vars == <<n_files, next_file, upload_attempts, upload_failed, files_ids>>
submit_vars == <<submit_calls, submitted, submit_status>>
check_vars == <<now, check_calls, last_check, last_query, cursor, response>>
download_vars == <<next_download, downloads, download_failed>>

batch_vars == <<upload_vars, submit_vars, batch_status, check_vars, report,
                download_vars>>

sync_vars == <<api, delete_opt, sync_n, cur, processed, failed_at, trace,
               polls, observed, tracks, dl, delete_requests>>
route_vars == <<stem_opt, multivocal, dereverb_enabled, splitter, split_request>>
train_vars == <<minutes_passed, train_requests, train_observed, voice_pack_id,
                activate_calls>>

\* the state of the clients other than the asynchronous batch mode
rest_vars == <<sync_vars, route_vars, train_vars>>

vars == <<pc, upload_vars, submit_vars, batch_status, check_vars, report,
          download_vars, fault, rest_vars>>

Files == 1..MaxFiles

\* The service issues one identifier per uploaded file, distinct per file.
FileId(f) == f

\* An identifier of the same account that is not of this batch.
ForeignId == MaxFiles + 1

TrackTypes == {"stem", "back"}

None == <<>>
Some(v) == <<v>>
Has(opt) == opt # <<>>
Get(opt) == opt[1]

(***************************************************************************)
(* Status snapshots: one entry of check_result["result"].                  *)
(***************************************************************************)
Split(stem, back, duration) ==
    [stem_track |-> stem, back_track |-> back, duration |-> duration]

Splits ==
    { Split(Some("stem_url"), Some("back_url"), Some(2)),
      Split(Some("stem_url"), Some("back_url"), Some(0)),
      Split(Some("stem_url"), Some("back_url"), None),
      Split(Some("stem_url"), None, None),
      Split(Some(""), Some("back_url"), Some(2)),
      Split(None, None, None) }

\* task is the value of file_result["task"]["state"], None when the entry has
\* no such field.
Snapshot(task, split) == [task |-> task, split |-> split]

Snapshots ==
    { Snapshot(t, Split(None, None, None)) :
        t \in {None, Some("progress"), Some("error"), Some("cancelled")} }
    \cup { Snapshot(Some("success"), s) : s \in Splits }

ForeignSnapshots ==
    { Snapshot(Some("error"), Split(None, None, None)),
      Snapshot(Some("success"), Split(Some("stem_url"), Some("back_url"), Some(2))) }

\* a response without entries; the run that reads the response entry by entry
\* does not keep it
NoResponse == <<>>

(***************************************************************************)
(* Registry records.                                                       *)
(***************************************************************************)
\* batch_split_async: {"start_time": time.perf_counter(), "finished": False}
SeedRecord(t) ==
    [start_time |-> t, finished |-> FALSE, state |-> None, end_time |-> None,
     stem_track_url |-> None, back_track_url |-> None, duration |-> None,
     message |-> None]

\* Variant: the seeding loop starts at the second identifier.
SeedRegistrySkipsFirst(ids, t) ==
    [id \in {ids[i] : i \in 2..Len(ids)} |-> SeedRecord(t)]

SeedRegistry(ids, t) ==
    [id \in {ids[i] : i \in 1..Len(ids)} |-> SeedRecord(t)]

\* batch_process has not run
SyncIdle ==
    /\ api = "none"
    /\ delete_opt = FALSE
    /\ sync_n = 0
    /\ cur = 1
    /\ processed = [f \in Files |-> 0]
    /\ failed_at = [f \in Files |-> "none"]
    /\ trace = <<>>
    /\ polls = 0
    /\ observed = "none"
    /\ tracks = None
    /\ dl = 1
    /\ delete_requests = [f \in Files |-> 0]

\* main of the v1 splitter has not parsed its options
RouteIdle ==
    /\ stem_opt = "none"
    /\ multivocal = None
    /\ dereverb_enabled = FALSE
    /\ splitter = None
    /\ split_request = None

\* the voice training has not run
TrainIdle ==
    /\ minutes_passed = 0
    /\ train_requests = 0
    /\ train_observed = "none"
    /\ voice_pack_id = None
    /\ activate_calls = 0

Init ==
    /\ SyncIdle
    /\ RouteIdle
    /\ TrainIdle
    /\ pc = "upload"
    /\ n_files \in 0..MaxFiles
    /\ next_file = 1
    /\ upload_attempts = [f \in Files |-> 0]
    /\ upload_failed = {}
    /\ files_ids = <<>>
    /\ submit_calls = 0
    /\ submitted = None
    /\ submit_status = "none"
    /\ batch_status = SeedRegistry(<<>>, 0)
    /\ now = 0
    /\ check_calls = 0
    /\ last_check = "none"
    /\ last_query = {}
    /\ cursor = 1
    /\ response = NoResponse
    /\ report = None
    /\ next_download = 1
    /\ downloads = [k \in Files \X TrackTypes |-> 0]
    /\ download_failed = {}
    /\ fault = "none"

(***************************************************************************)
(* batch_process_async: the upload loop.                                   *)
(***************************************************************************)
UploadingFile == pc = "upload" /\ next_file <= n_files

\* upload_and_get_file_id returned: files_ids.append(file_id)
UploadOk ==
    /\ UploadingFile
    /\ upload_attempts' = [upload_attempts EXCEPT ![next_file] = @ + 1]
    /\ files_ids' = Append(files_ids, FileId(next_file))
    /\ next_file' = next_file + 1
    /\ UNCHANGED <<rest_vars, pc, n_files, upload_failed, submit_vars, batch_status,
                   check_vars, report, download_vars, fault>>

\* Variant: the upload is not wrapped in try/except, its exception ends the run.
UploadFailsAborts ==
    /\ UploadingFile
    /\ upload_attempts' = [upload_attempts EXCEPT ![next_file] = @ + 1]
    /\ upload_failed' = upload_failed \cup {next_file}
    /\ next_file' = next_file + 1
    /\ pc' = "aborted"
    /\ fault' = "upload"
    /\ UNCHANGED <<rest_vars, n_files, files_ids, submit_vars, batch_status, check_vars,
                   report, download_vars>>

\* upload_file raised: except Exception prints and the loop goes on
UploadFails ==
    /\ UploadingFile
    /\ upload_attempts' = [upload_attempts EXCEPT ![next_file] = @ + 1]
    /\ upload_failed' = upload_failed \cup {next_file}
    /\ next_file' = next_file + 1
    /\ UNCHANGED <<rest_vars, pc, n_files, files_ids, submit_vars, batch_status,
                   check_vars, report, download_vars, fault>>

(***************************************************************************)
(* batch_split_async: the bulk submit, then the seeding of the registry.   *)
(***************************************************************************)
\* Variant: the submit is issued from inside the upload loop.
UploadsOverEarly == pc = "upload"

UploadsOver == pc = "upload" /\ next_file > n_files

\* batch_split_files returned; one record per submitted identifier
SubmitOk ==
    /\ UploadsOver
    /\ submit_calls' = submit_calls + 1
    /\ submitted' = Some(files_ids)
    /\ submit_status' = "accepted"
    /\ batch_status' = SeedRegistry(files_ids, now)
    /\ pc' = "poll"
    /\ UNCHANGED <<rest_vars, upload_vars, check_vars, report, download_vars, fault>>

\* Variant: the rejection is caught and printed, the run goes on.
SubmitFailsIgnored ==
    /\ UploadsOver
    /\ submit_calls' = submit_calls + 1
    /\ submitted' = Some(files_ids)
    /\ submit_status' = "rejected"
    /\ batch_status' = SeedRegistry(files_ids, now)
    /\ pc' = "poll"
    /\ UNCHANGED <<rest_vars, upload_vars, check_vars, report, download_vars, fault>>

\* batch_split_files raised (urlopen, or status "error"): nothing catches it
\* before the handler of __main__
SubmitFails ==
    /\ UploadsOver
    /\ submit_calls' = submit_calls + 1
    /\ submitted' = Some(files_ids)
    /\ submit_status' = "rejected"
    /\ pc' = "aborted"
    /\ fault' = "submit"
    /\ UNCHANGED <<rest_vars, upload_vars, batch_status, check_vars, report, download_vars>>

(***************************************************************************)
(* check_multiple_files: the loop over check_result["result"].             *)
(***************************************************************************)
\* Variant: the except branch also clears the finished flag.
UnexpectedResetsFinished(rec) ==
    [rec EXCEPT !.state = Some("error"), !.message = Some("unexpected error"),
                !.finished = FALSE]

\* Variant: the except branch records the message and leaves the state.
UnexpectedKeepsState(rec) ==
    [rec EXCEPT !.message = Some("unexpected error")]

\* the bare except: of the loop body
Unexpected(rec) ==
    [rec EXCEPT !.state = Some("error"), !.message = Some("unexpected error")]

\* Variant: the success branch does not test the finished flag.
ApplySnapshotNoFinishedTest(rec, snap, t) ==
    IF ~Has(snap.task) THEN Unexpected(rec)
    ELSE IF Get(snap.task) = "error"
    THEN [rec EXCEPT !.state = Some("error"), !.finished = TRUE]
    ELSE IF Get(snap.task) = "success"
    THEN LET r1 == [rec EXCEPT !.end_time = Some(t),
                               !.state = Some("success"),
                               !.finished = TRUE]
             r2 == [r1 EXCEPT !.stem_track_url = snap.split.stem_track]
             r3 == [r2 EXCEPT !.back_track_url = snap.split.back_track]
             r4 == [r3 EXCEPT !.duration = snap.split.duration]
         IN  IF ~Has(snap.split.stem_track) THEN Unexpected(r1)
             ELSE IF ~Has(snap.split.back_track) THEN Unexpected(r2)
             ELSE IF ~Has(snap.split.duration) THEN Unexpected(r3)
             ELSE r4
    ELSE rec

\* the body of the try: for one entry; t is time.perf_counter()
ApplySnapshot(rec, snap, t) ==
    IF ~Has(snap.task) THEN Unexpected(rec)
    ELSE IF Get(snap.task) = "error"
    THEN [rec EXCEPT !.state = Some("error"), !.finished = TRUE]
    ELSE IF Get(snap.task) = "success" /\ ~rec.finished
    THEN LET r1 == [rec EXCEPT !.end_time = Some(t),
                               !.state = Some("success"),
                               !.finished = TRUE]
             r2 == [r1 EXCEPT !.stem_track_url = snap.split.stem_track]
             r3 == [r2 EXCEPT !.back_track_url = snap.split.back_track]
             r4 == [r3 EXCEPT !.duration = snap.split.duration]
         IN  IF ~Has(snap.split.stem_track) THEN Unexpected(r1)
             ELSE IF ~Has(snap.split.back_track) THEN Unexpected(r2)
             ELSE IF ~Has(snap.split.duration) THEN Unexpected(r3)
             ELSE r4
    ELSE rec

\* Variant: the try is around the whole for loop and its except marks every
\* record of check_list.
UpdateEntryMarksAll(check_list, file_id, file_result, t) ==
    IF file_id \notin DOMAIN check_list
    THEN check_list
    ELSE IF ~Has(file_result.task)
    THEN [id \in DOMAIN check_list |-> Unexpected(check_list[id])]
    ELSE [check_list EXCEPT ![file_id] = ApplySnapshot(@, file_result, t)]

\* Variant: no membership test, a record is created for an unknown identifier.
UpdateEntryAddsUnknown(check_list, file_id, file_result, t) ==
    [id \in DOMAIN check_list \cup {file_id} |->
        IF id # file_id THEN check_list[id]
        ELSE ApplySnapshot(IF id \in DOMAIN check_list
                           THEN check_list[id] ELSE SeedRecord(t),
                           file_result, t)]

\* one iteration of the for loop: an identifier not in check_list is skipped
UpdateEntry(check_list, file_id, file_result, t) ==
    IF file_id \notin DOMAIN check_list
    THEN check_list
    ELSE [check_list EXCEPT ![file_id] = ApplySnapshot(@, file_result, t)]

\* Variant: the loop runs over the keys of check_list and looks each one up in
\* the response; the lookup of a missing entry raises inside the try.
ApplyResultOverRegistry(check_list, result, ids, t) ==
    [id \in DOMAIN check_list |->
        IF id \in ids THEN ApplySnapshot(check_list[id], result[id], t)
        ELSE Unexpected(check_list[id])]

RECURSIVE ApplyResult(_, _, _, _)
ApplyResult(check_list, result, ids, t) ==
    IF ids = {} THEN check_list
    ELSE LET id == CHOOSE x \in ids : TRUE
         IN  ApplyResult(UpdateEntry(check_list, id, result[id], t),
                         result, ids \ {id}, t)

CheckMultipleFiles(check_list, result, t) ==
    ApplyResult(check_list, result, DOMAIN result, t)

(***************************************************************************)
(* batch_check: the polling loop.  One iteration is the status request,    *)
(* then the for loop of check_multiple_files entry by entry, then the test *)
(* of the finished flags.  The entries of the response are read in the     *)
(* order of Candidates; for each identifier the service either reports a   *)
(* snapshot or has no entry.                                               *)
(***************************************************************************)
\* the identifiers of the request: ",".join(check_list.keys())
QueryIds(check_list) == DOMAIN check_list

\* the identifiers the response may report on: those of the batch in dict
\* order, then one of another batch of the account
Candidates == Append(files_ids, ForeignId)

EntrySnapshots(file_id) ==
    IF file_id = ForeignId THEN ForeignSnapshots ELSE Snapshots

\* the task states check_multiple_files and check_file compare against
KnownTaskStates == {"progress", "error", "success"}

\* Variant: the loop breaks only when every record is finished with success.
DrainedNeedsSuccess(status) ==
    \A id \in DOMAIN status :
        status[id].finished /\ status[id].state = Some("success")

\* the for loop computing not_finished
Drained(status) == \A id \in DOMAIN status : status[id].finished

Polling == pc = "poll" /\ check_calls < MaxPolls

\* Variant: one status request per record of the registry.
CheckRequestOkPerJob ==
    /\ Polling
    /\ now' = now + 1
    /\ check_calls' = check_calls + Cardinality(DOMAIN batch_status)
    /\ last_check' = "ok"
    /\ last_query' = QueryIds(batch_status)
    /\ cursor' = 1
    /\ pc' = "apply"
    /\ UNCHANGED <<rest_vars, upload_vars, submit_vars, batch_status, response, report,
                   download_vars, fault>>

\* the status request is answered with status other than "error"
CheckRequestOk ==
    /\ Polling
    /\ now' = now + 1
    /\ check_calls' = check_calls + 1
    /\ last_check' = "ok"
    /\ last_query' = QueryIds(batch_status)
    /\ cursor' = 1
    /\ pc' = "apply"
    /\ UNCHANGED <<rest_vars, upload_vars, submit_vars, batch_status, response, report,
                   download_vars, fault>>

\* the status request failed: urlopen raised, or the response has status
\* "error" and check_multiple_files raises RuntimeError; batch_check has no
\* handler, the exception leaves the loop
CheckRequestFails ==
    /\ Polling
    /\ \E how \in {"raised", "status_error"} : last_check' = how
    /\ now' = now + 1
    /\ check_calls' = check_calls + 1
    /\ last_query' = QueryIds(batch_status)
    /\ pc' = "aborted"
    /\ fault' = "check"
    /\ UNCHANGED <<rest_vars, upload_vars, submit_vars, batch_status, cursor, response,
                   report, download_vars>>

ReadingEntries == pc = "apply" /\ cursor <= Len(Candidates)

\* the response has an entry for the identifier: one pass of the for loop
ApplyEntry ==
    /\ ReadingEntries
    /\ \E file_result \in EntrySnapshots(Candidates[cursor]) :
         batch_status' =
            UpdateEntry(batch_status, Candidates[cursor], file_result, now)
    /\ cursor' = cursor + 1
    /\ UNCHANGED <<rest_vars, pc, upload_vars, submit_vars, now, check_calls, last_check,
                   last_query, response, report, download_vars, fault>>

\* the response has no entry for the identifier
NoEntry ==
    /\ ReadingEntries
    /\ cursor' = cursor + 1
    /\ UNCHANGED <<rest_vars, pc, upload_vars, submit_vars, batch_status, now,
                   check_calls, last_check, last_query, response, report,
                   download_vars, fault>>

\* Variant: the loop breaks as soon as one record is finished.
PollEndOnFirstFinished ==
    /\ pc = "apply"
    /\ cursor > Len(Candidates)
    /\ pc' = IF \E id \in DOMAIN batch_status : batch_status[id].finished
             THEN "report" ELSE "poll"
    /\ UNCHANGED <<rest_vars, upload_vars, submit_vars, batch_status, check_vars, report,
                   download_vars, fault>>

\* check_multiple_files returned: break when no record is unfinished,
\* time.sleep(1) and the next iteration otherwise
PollEnd ==
    /\ pc = "apply"
    /\ cursor > Len(Candidates)
    /\ pc' = IF Drained(batch_status) THEN "report" ELSE "poll"
    /\ UNCHANGED <<rest_vars, upload_vars, submit_vars, batch_status, check_vars, report,
                   download_vars, fault>>

(***************************************************************************)
(* batch_check: the report printed after the loop.                         *)
(***************************************************************************)
\* the for loop over batch_status.items() from the i-th record (dict order is
\* insertion order, the order of ids); a missing key raises KeyError, a zero
\* duration raises ZeroDivisionError at the speed of the item
RECURSIVE ReportLoop(_, _, _, _, _, _)
ReportLoop(status, ids, i, total_duration, max_time, items) ==
    IF i > Len(ids)
    THEN [fault |-> "none", total_duration |-> total_duration,
          max_time |-> max_time, items |-> items,
          avg_undef |-> ~(total_duration > 0)]
    ELSE LET value == status[ids[i]]
             failed(why) == [fault |-> why, total_duration |-> total_duration,
                             max_time |-> max_time, items |-> items,
                             avg_undef |-> FALSE]
         IN  IF ~value.finished
             THEN ReportLoop(status, ids, i + 1, total_duration, max_time, items)
             ELSE IF ~Has(value.end_time) \/ ~Has(value.duration)
             THEN failed("KeyError")
             ELSE LET elapsed == Get(value.end_time) - value.start_time
                      total == total_duration + Get(value.duration)
                      max == IF elapsed > max_time THEN elapsed ELSE max_time
                  IN  IF Get(value.duration) = 0
                      THEN failed("ZeroDivisionError")
                      ELSE ReportLoop(status, ids, i + 1, total, max,
                                      Append(items, ids[i]))

\* Variant: the summary line divides by total_duration without testing it.
BatchReportDivides(status, ids) ==
    LET r == ReportLoop(status, ids, 1, 0, 0, <<>>)
    IN  IF r.fault = "none" /\ r.total_duration = 0
        THEN [r EXCEPT !.fault = "ZeroDivisionError"]
        ELSE r

BatchReport(status, ids) == ReportLoop(status, ids, 1, 0, 0, <<>>)

\* "All files done", the item lines and the summary line are printed
ReportOk ==
    /\ pc = "report"
    /\ BatchReport(batch_status, files_ids).fault = "none"
    /\ report' = Some(BatchReport(batch_status, files_ids))
    /\ pc' = "download"
    /\ UNCHANGED <<rest_vars, upload_vars, submit_vars, batch_status, check_vars,
                   download_vars, fault>>

\* an item of the report raises: the exception leaves batch_check and
\* batch_split_async, batch_download is not called
ReportFails ==
    /\ pc = "report"
    /\ BatchReport(batch_status, files_ids).fault # "none"
    /\ fault' = BatchReport(batch_status, files_ids).fault
    /\ pc' = "aborted"
    /\ UNCHANGED <<rest_vars, upload_vars, submit_vars, batch_status, check_vars, report,
                   download_vars>>

(***************************************************************************)
(* batch_download: one record per step, in dict order.                     *)
(***************************************************************************)
\* if stem_track_url: / if back_track_url: on the result of value.get(...)
Truthy(url) == Has(url) /\ Get(url) # ""

TrackUrl(value, type) ==
    IF type = "stem" THEN value.stem_track_url ELSE value.back_track_url

\* the tracks of a record that batch_download tries to fetch
Attempted(value) == {type \in TrackTypes : Truthy(TrackUrl(value, type))}

\* Variant: one try around both downloads, a failed stem track download skips
\* the back track.
DownloadRecordStopsAtFailure(file_id, failing) ==
    LET tried == IF "stem" \in failing \cap Attempted(batch_status[file_id])
                 THEN {"stem"} ELSE Attempted(batch_status[file_id])
    IN  /\ downloads' =
             [k \in DOMAIN downloads |->
                IF k[1] = file_id /\ k[2] \in tried
                THEN downloads[k] + 1 ELSE downloads[k]]
        /\ download_failed' = download_failed \cup
             {<<file_id, type>> : type \in failing \cap tried}
        /\ next_download' = next_download + 1

\* the body of the for loop for the record of file_id; failing is the set of
\* track types whose download_track raises (caught by except Exception)
DownloadRecord(file_id, failing) ==
    /\ downloads' =
         [k \in DOMAIN downloads |->
            IF k[1] = file_id /\ k[2] \in Attempted(batch_status[file_id])
            THEN downloads[k] + 1 ELSE downloads[k]]
    /\ download_failed' = download_failed \cup
         {<<file_id, type>> : type \in failing \cap Attempted(batch_status[file_id])}
    /\ next_download' = next_download + 1

Download ==
    /\ pc = "download"
    /\ next_download <= Len(files_ids)
    /\ \E failing \in SUBSET TrackTypes :
         DownloadRecord(files_ids[next_download], failing)
    /\ UNCHANGED <<rest_vars, pc, upload_vars, submit_vars, batch_status, check_vars,
                   report, fault>>

\* batch_download, batch_split_async and batch_process_async return
DownloadsOver ==
    /\ pc = "download"
    /\ next_download > Len(files_ids)
    /\ pc' = "done"
    /\ UNCHANGED <<rest_vars, upload_vars, submit_vars, batch_status, check_vars, report,
                   download_vars, fault>>

Next ==
    \/ UploadOk
    \/ UploadFails
    \/ SubmitOk
    \/ SubmitFails
    \/ CheckRequestOk
    \/ CheckRequestFails
    \/ ApplyEntry
    \/ NoEntry
    \/ PollEnd
    \/ ReportOk
    \/ ReportFails
    \/ Download
    \/ DownloadsOver

Spec == Init /\ [][Next]_vars

(***************************************************************************)
(* The run up to the exit of the polling loop, against a service that      *)
(* answers every status request and reports success or error for every job *)
(* of the batch at the latest in the iteration of the last request.        *)
(***************************************************************************)
\* the iteration of the last status request
LastPoll == check_calls = MaxPolls

TerminalSnapshot(file_result) ==
    file_result.task \in {Some("success"), Some("error")}

\* one pass of the for loop; in the last iteration the entry of a job reports
\* success or error
ApplyEntryLive ==
    /\ ReadingEntries
    /\ \E file_result \in EntrySnapshots(Candidates[cursor]) :
         /\ LastPoll => TerminalSnapshot(file_result)
         /\ batch_status' =
              UpdateEntry(batch_status, Candidates[cursor], file_result, now)
    /\ cursor' = cursor + 1
    /\ UNCHANGED <<rest_vars, pc, upload_vars, submit_vars, now, check_calls, last_check,
                   last_query, response, report, download_vars, fault>>

\* the response has no entry for the identifier; in the last iteration only
\* for an identifier that is not of the batch or whose record is finished
NoEntryLive ==
    /\ ReadingEntries
    /\ LastPoll =>
         IF Candidates[cursor] \in DOMAIN batch_status
         THEN batch_status[Candidates[cursor]].finished
         ELSE TRUE
    /\ cursor' = cursor + 1
    /\ UNCHANGED <<rest_vars, pc, upload_vars, submit_vars, batch_status, now,
                   check_calls, last_check, last_query, response, report,
                   download_vars, fault>>

NextLive ==
    \/ UploadOk
    \/ UploadFails
    \/ SubmitOk
    \/ SubmitFails
    \/ CheckRequestOk
    \/ ApplyEntryLive
    \/ NoEntryLive
    \/ PollEnd

\* The program is one thread that is never suspended for good: urlopen and
\* time.sleep(1) return, so a step that is possible is eventually taken.
SpecLive == Init /\ [][NextLive]_vars /\ WF_vars(NextLive)

(***************************************************************************)
(* check_multiple_files as a whole call.  The registry of a batch whose    *)
(* uploads all succeeded is taken after the first poll iteration, any      *)
(* response applied to the seeded records, with a record still unfinished  *)
(* (batch_check calls again); the call is made with any response, then     *)
(* once more with the same response.                                       *)
(***************************************************************************)
\* the responses the service may give to a request for the identifiers ids
Results(ids) ==
    { result \in UNION { [S \cup F -> Snapshots \cup ForeignSnapshots] :
                           S \in SUBSET ids, F \in SUBSET {ForeignId} } :
        \A id \in DOMAIN result : result[id] \in EntrySnapshots(id) }

UploadedIdsOf(n) == [i \in 1..n |-> FileId(i)]

CheckInit ==
    /\ SyncIdle
    /\ RouteIdle
    /\ TrainIdle
    /\ pc = "call"
    /\ n_files \in 1..MaxFiles
    /\ next_file = n_files + 1
    /\ upload_attempts = [f \in Files |-> IF f <= n_files THEN 1 ELSE 0]
    /\ upload_failed = {}
    /\ files_ids = UploadedIdsOf(n_files)
    /\ submit_calls = 1
    /\ submitted = Some(files_ids)
    /\ submit_status = "accepted"
    /\ \E first \in Results({files_ids[i] : i \in 1..Len(files_ids)}) :
         batch_status =
            CheckMultipleFiles(SeedRegistry(files_ids, 0), first, 1)
    /\ ~Drained(batch_status)
    /\ now = 1
    /\ check_calls = 1
    /\ last_check = "ok"
    /\ last_query = DOMAIN batch_status
    /\ cursor = 1
    /\ response = NoResponse
    /\ report = None
    /\ next_download = 1
    /\ downloads = [k \in Files \X TrackTypes |-> 0]
    /\ download_failed = {}
    /\ fault = "none"

\* one call of check_multiple_files answered with status other than "error"
CheckCall ==
    /\ pc = "call"
    /\ \E result \in Results(QueryIds(batch_status)) :
         /\ response' = result
         /\ batch_status' = CheckMultipleFiles(batch_status, result, now + 1)
    /\ now' = now + 1
    /\ check_calls' = check_calls + 1
    /\ last_query' = QueryIds(batch_status)
    /\ pc' = "called"
    /\ UNCHANGED <<rest_vars, upload_vars, submit_vars, last_check, cursor, report,
                   download_vars, fault>>

\* the next call, the service answering with the same response
CheckRepeat ==
    /\ pc = "called"
    /\ batch_status' = CheckMultipleFiles(batch_status, response, now + 1)
    /\ now' = now + 1
    /\ check_calls' = check_calls + 1
    /\ last_query' = QueryIds(batch_status)
    /\ pc' = "repeated"
    /\ UNCHANGED <<rest_vars, upload_vars, submit_vars, last_check, cursor, response,
                   report, download_vars, fault>>

CheckNext ==
    \/ CheckCall
    \/ CheckRepeat

SpecCheck == CheckInit /\ [][CheckNext]_vars

(***************************************************************************)
(* Synchronous mode: batch_process calls batch_process_for_file for every  *)
(* regular file of the directory, one after the other.  The legacy client  *)
(* (tools/api/lalalai_splitter.py) uploads, splits, waits in check_file    *)
(* and downloads the stem and the back track; the v1 client                *)
(* (api-v1/python/lalalai_splitter.py) uploads, splits, waits in           *)
(* check_task, downloads every track of the result and, with --delete,     *)
(* requests the deletion of the source.  Either body is one try block      *)
(* whose except prints and returns.                                        *)
(***************************************************************************)
\* the asynchronous batch mode has not run
BatchIdle ==
    /\ n_files = 0
    /\ next_file = 1
    /\ upload_attempts = [f \in Files |-> 0]
    /\ upload_failed = {}
    /\ files_ids = <<>>
    /\ submit_calls = 0
    /\ submitted = None
    /\ submit_status = "none"
    /\ batch_status = SeedRegistry(<<>>, 0)
    /\ now = 0
    /\ check_calls = 0
    /\ last_check = "none"
    /\ last_query = {}
    /\ cursor = 1
    /\ response = NoResponse
    /\ report = None
    /\ next_download = 1
    /\ downloads = [k \in Files \X TrackTypes |-> 0]
    /\ download_failed = {}

\* what one status request of check_file can observe: urlopen raises, status
\* "error", task state error, progress (with a progress that int() rejects),
\* success (without the split locators), any other task state
LegacyObservations ==
    {"raised", "status_error", "task_error", "progress", "progress_bad",
     "success", "success_no_urls", "cancelled"}

\* what one status request of check_task can observe: requests.post raises,
\* a status code other than 200, no entry for the task, and the statuses
\* success (without "result"), cancelled, progress (with a progress that
\* int() rejects), error, and an entry without status
V1Observations ==
    {"raised", "not_200", "absent", "success", "success_no_result",
     "cancelled", "progress", "progress_bad", "error", "no_status"}

Observations(client) ==
    IF client = "legacy" THEN LegacyObservations ELSE V1Observations

\* check_file: one pass of while True ends in return, raise or time.sleep(15)
CheckFileOutcome(obs) ==
    IF obs \in {"raised", "status_error", "task_error", "progress_bad",
                "success_no_urls"}
    THEN "raise"
    ELSE IF obs = "success" THEN "return"
    ELSE "again"

\* Variant: status "error" falls into the branch of "progress".
CheckTaskOutcomeRetriesError(obs) ==
    IF obs = "success" THEN "return"
    ELSE IF obs \in {"progress", "error"} THEN "again"
    ELSE "raise"

\* check_task: one pass of while True ends in return, raise or time.sleep(5)
CheckTaskOutcome(obs) ==
    IF obs = "success" THEN "return"
    ELSE IF obs = "progress" THEN "again"
    ELSE "raise"

CheckOutcome(client, obs) ==
    IF client = "legacy" THEN CheckFileOutcome(obs) ELSE CheckTaskOutcome(obs)

\* the tracks batch_process_for_file downloads after the wait returned: the
\* stem and the back track (legacy), the list split_result["tracks"] when the
\* result has one (v1)
ResultTracks(client) ==
    IF client = "legacy" THEN {Some(2)}
    ELSE {None} \cup {Some(t) : t \in 0..MaxTracks}

SyncInit ==
    /\ BatchIdle
    /\ RouteIdle
    /\ TrainIdle
    /\ pc = "s_file"
    /\ fault = "none"
    /\ api \in {"legacy", "v1"}
    /\ delete_opt \in (IF api = "v1" THEN BOOLEAN ELSE {FALSE})
    /\ sync_n \in 0..MaxFiles
    /\ cur = 1
    /\ processed = [f \in Files |-> 0]
    /\ failed_at = [f \in Files |-> "none"]
    /\ trace = <<>>
    /\ polls = 0
    /\ observed = "none"
    /\ tracks = None
    /\ dl = 1
    /\ delete_requests = [f \in Files |-> 0]

\* batch_process: the next regular file, batch_process_for_file is entered
SyncBegin ==
    /\ pc = "s_file"
    /\ cur <= sync_n
    /\ processed' = [processed EXCEPT ![cur] = @ + 1]
    /\ trace' = <<>>
    /\ polls' = 0
    /\ observed' = "none"
    /\ tracks' = None
    /\ dl' = 1
    /\ pc' = "s_upload"
    /\ UNCHANGED <<batch_vars, route_vars, train_vars, fault, api, delete_opt,
                   sync_n, cur, failed_at, delete_requests>>

\* batch_process: the for loop is over
SyncOver ==
    /\ pc = "s_file"
    /\ cur > sync_n
    /\ pc' = "done"
    /\ UNCHANGED <<batch_vars, route_vars, train_vars, fault, sync_vars>>

\* a step of the try block returned
StepOk(step, next) ==
    /\ trace' = Append(trace, <<step, "ok">>)
    /\ pc' = next

\* batch_process_for_file returns and the for loop moves on
FileOver ==
    /\ cur' = cur + 1
    /\ pc' = "s_file"

\* Variant: the body has no try block, the exception leaves batch_process.
FileFailsAborts(step) ==
    /\ trace' = Append(trace, <<step, "failed">>)
    /\ failed_at' = [failed_at EXCEPT ![cur] = step]
    /\ delete_requests' = delete_requests
    /\ cur' = cur
    /\ pc' = "aborted"
    /\ fault' = step

\* Variant: the deletion is requested in a finally clause.
FileFailsDeletes(step) ==
    /\ trace' = Append(trace, <<step, "failed">>)
    /\ failed_at' = [failed_at EXCEPT ![cur] = step]
    /\ delete_requests' =
         [delete_requests EXCEPT ![cur] = IF delete_opt THEN @ + 1 ELSE @]
    /\ FileOver
    /\ fault' = fault

\* a step of the try block raised: except Exception prints, the function
\* returns
FileFails(step) ==
    /\ trace' = Append(trace, <<step, "failed">>)
    /\ failed_at' = [failed_at EXCEPT ![cur] = step]
    /\ delete_requests' = delete_requests
    /\ FileOver
    /\ fault' = fault

SyncUploadOk ==
    /\ pc = "s_upload"
    /\ StepOk("upload", "s_split")
    /\ UNCHANGED <<batch_vars, route_vars, train_vars, fault, api, delete_opt,
                   sync_n, cur, processed, failed_at, polls, observed, tracks,
                   dl, delete_requests>>

SyncUploadFails ==
    /\ pc = "s_upload"
    /\ FileFails("upload")
    /\ UNCHANGED <<batch_vars, route_vars, train_vars, api, delete_opt,
                   sync_n, processed, polls, observed, tracks, dl>>

SyncSplitOk ==
    /\ pc = "s_split"
    /\ StepOk("split", "s_check")
    /\ UNCHANGED <<batch_vars, route_vars, train_vars, fault, api, delete_opt,
                   sync_n, cur, processed, failed_at, polls, observed, tracks,
                   dl, delete_requests>>

SyncSplitFails ==
    /\ pc = "s_split"
    /\ FileFails("split")
    /\ UNCHANGED <<batch_vars, route_vars, train_vars, api, delete_opt,
                   sync_n, processed, polls, observed, tracks, dl>>

\* one status request of check_file / check_task and what it observes
Observing(obs) ==
    /\ pc = "s_check"
    /\ polls < MaxPolls
    /\ obs \in Observations(api)
    /\ polls' = polls + 1
    /\ observed' = obs

\* the wait sleeps and polls again
SyncCheckAgain ==
    /\ \E obs \in LegacyObservations \cup V1Observations :
         /\ Observing(obs)
         /\ CheckOutcome(api, obs) = "again"
    /\ UNCHANGED <<batch_vars, route_vars, train_vars, fault, pc, api,
                   delete_opt, sync_n, cur, processed, failed_at, trace,
                   tracks, dl, delete_requests>>

\* the wait returns the result
SyncCheckReturns ==
    /\ \E obs \in LegacyObservations \cup V1Observations :
         /\ Observing(obs)
         /\ CheckOutcome(api, obs) = "return"
    /\ tracks' \in ResultTracks(api)
    /\ StepOk("check", "s_download")
    /\ UNCHANGED <<batch_vars, route_vars, train_vars, fault, api, delete_opt,
                   sync_n, cur, processed, failed_at, dl, delete_requests>>

\* the wait raises
SyncCheckRaises ==
    /\ \E obs \in LegacyObservations \cup V1Observations :
         /\ Observing(obs)
         /\ CheckOutcome(api, obs) = "raise"
    /\ FileFails("check")
    /\ UNCHANGED <<batch_vars, route_vars, train_vars, api, delete_opt,
                   sync_n, processed, tracks, dl>>

DownloadingTrack == pc = "s_download" /\ Has(tracks) /\ dl <= Get(tracks)

\* v1: split_result has no "tracks", the for statement raises KeyError
SyncNoTracks ==
    /\ pc = "s_download"
    /\ ~Has(tracks)
    /\ FileFails("tracks")
    /\ UNCHANGED <<batch_vars, route_vars, train_vars, api, delete_opt,
                   sync_n, processed, polls, observed, tracks, dl>>

SyncDownloadOk ==
    /\ DownloadingTrack
    /\ trace' = Append(trace, <<"download", "ok">>)
    /\ dl' = dl + 1
    /\ UNCHANGED <<batch_vars, route_vars, train_vars, fault, pc, api,
                   delete_opt, sync_n, cur, processed, failed_at, polls,
                   observed, tracks, delete_requests>>

\* Variant: each download has its own try, the function goes on to the next.
SyncDownloadFailsGoesOn ==
    /\ DownloadingTrack
    /\ trace' = Append(trace, <<"download", "failed">>)
    /\ dl' = dl + 1
    /\ UNCHANGED <<batch_vars, route_vars, train_vars, fault, pc, api,
                   delete_opt, sync_n, cur, processed, failed_at, polls,
                   observed, tracks, delete_requests>>

SyncDownloadFails ==
    /\ DownloadingTrack
    /\ FileFails("download")
    /\ UNCHANGED <<batch_vars, route_vars, train_vars, api, delete_opt,
                   sync_n, processed, polls, observed, tracks, dl>>

\* every track is downloaded: "has been successfully split"; if delete:
SyncDownloadsOver ==
    /\ pc = "s_download"
    /\ Has(tracks)
    /\ dl > Get(tracks)
    /\ IF api = "v1" /\ delete_opt
       THEN pc' = "s_delete" /\ cur' = cur
       ELSE FileOver
    /\ UNCHANGED <<batch_vars, route_vars, train_vars, fault, api, delete_opt,
                   sync_n, processed, failed_at, trace, polls, observed,
                   tracks, dl, delete_requests>>

\* delete_tracks returned
SyncDeleteOk ==
    /\ pc = "s_delete"
    /\ delete_requests' = [delete_requests EXCEPT ![cur] = @ + 1]
    /\ trace' = Append(trace, <<"delete", "ok">>)
    /\ FileOver
    /\ UNCHANGED <<batch_vars, route_vars, train_vars, fault, api, delete_opt,
                   sync_n, processed, failed_at, polls, observed, tracks, dl>>

\* delete_tracks raised after its request
SyncDeleteFails ==
    /\ pc = "s_delete"
    /\ delete_requests' = [delete_requests EXCEPT ![cur] = @ + 1]
    /\ trace' = Append(trace, <<"delete", "failed">>)
    /\ failed_at' = [failed_at EXCEPT ![cur] = "delete"]
    /\ FileOver
    /\ UNCHANGED <<batch_vars, route_vars, train_vars, fault, api, delete_opt,
                   sync_n, processed, polls, observed, tracks, dl>>

SyncNext ==
    \/ SyncBegin
    \/ SyncOver
    \/ SyncUploadOk
    \/ SyncUploadFails
    \/ SyncSplitOk
    \/ SyncSplitFails
    \/ SyncCheckAgain
    \/ SyncCheckReturns
    \/ SyncCheckRaises
    \/ SyncNoTracks
    \/ SyncDownloadOk
    \/ SyncDownloadFails
    \/ SyncDownloadsOver
    \/ SyncDeleteOk
    \/ SyncDeleteFails

SpecSync == SyncInit /\ [][SyncNext]_vars

(***************************************************************************)
(* v1 splitter: main validates the stem and the multivocal option, then    *)
(* batch_process_for_file uploads the input file, builds the parameters of *)
(* the split and posts them to the endpoint of their type.                 *)
(***************************************************************************)
voice_clean_stems == {"voice"}
demuser_stems == {"music"}
stem_separator_stems ==
    {"vocals", "drum", "piano", "bass", "electric_guitar", "acoustic_guitar",
     "synthesizer", "strings", "wind"}

valid_stems == voice_clean_stems \cup demuser_stems \cup stem_separator_stems

\* a stem that is not of the enumeration
OtherStem == "karaoke"

\* _validate_stem and _validate_multivocal raise ValueError
Rejected(stem, multi) ==
    \/ stem \notin valid_stems
    \/ Has(multi) /\ stem # "vocals"

\* main: noise_cancelling is the option (default 1) for voice, None otherwise
NoiseCancelling(stem) == IF stem = "voice" THEN Some(1) ELSE None

\* Variant: no branch for "music", the stem goes to the last branch.
BuildSplitParamsNoDemuser(stem, dereverb, multi, split) ==
    IF stem = "voice"
    THEN [type |-> "VoiceCleanParams", stem |-> None,
          noise_cancelling_level |-> NoiseCancelling(stem),
          extraction_level |-> None, dereverb_enabled |-> dereverb,
          multivocal |-> None, splitter |-> split]
    ELSE [type |-> "StemSeparatorParams", stem |-> Some(stem),
          noise_cancelling_level |-> None,
          extraction_level |-> Some("deep_extraction"),
          dereverb_enabled |-> dereverb, multivocal |-> multi,
          splitter |-> split]

\* build_split_params: the dataclass of the stem; a field the dataclass does
\* not have is None
BuildSplitParams(stem, dereverb, multi, split) ==
    IF stem = "voice"
    THEN [type |-> "VoiceCleanParams", stem |-> None,
          noise_cancelling_level |-> NoiseCancelling(stem),
          extraction_level |-> None, dereverb_enabled |-> dereverb,
          multivocal |-> None, splitter |-> split]
    ELSE IF stem = "music"
    THEN [type |-> "DemuserParams", stem |-> None,
          noise_cancelling_level |-> None, extraction_level |-> None,
          dereverb_enabled |-> dereverb, multivocal |-> None,
          splitter |-> None]
    ELSE [type |-> "StemSeparatorParams", stem |-> Some(stem),
          noise_cancelling_level |-> None,
          extraction_level |-> Some("deep_extraction"),
          dereverb_enabled |-> dereverb, multivocal |-> multi,
          splitter |-> split]

\* split_file and the three split_* functions: the endpoint of the type of
\* params and the presets of the request body; a key that is not sent is None
SplitRequest(params) ==
    IF params.type = "VoiceCleanParams"
    THEN [endpoint |-> "split/voice_clean/",
          presets |-> [stem |-> Some("voice"),
                       noise_cancelling_level |-> params.noise_cancelling_level,
                       extraction_level |-> None,
                       dereverb_enabled |->
                           IF params.dereverb_enabled THEN Some(TRUE) ELSE None,
                       multivocal |-> None,
                       splitter |-> params.splitter]]
    ELSE IF params.type = "DemuserParams"
    THEN [endpoint |-> "split/demuser/",
          presets |-> [stem |-> Some("music"),
                       noise_cancelling_level |-> None,
                       extraction_level |-> None,
                       dereverb_enabled |->
                           IF params.dereverb_enabled THEN Some(TRUE) ELSE None,
                       multivocal |-> None,
                       splitter |-> None]]
    ELSE [endpoint |-> "split/stem_separator/",
          presets |-> [stem |-> params.stem,
                       noise_cancelling_level |-> None,
                       extraction_level |-> params.extraction_level,
                       dereverb_enabled |->
                           IF params.dereverb_enabled THEN Some(TRUE) ELSE None,
                       multivocal |->
                           IF Has(params.multivocal) /\ params.stem = Some("vocals")
                           THEN params.multivocal ELSE None,
                       splitter |-> params.splitter]]

RouteInit ==
    /\ BatchIdle
    /\ SyncIdle
    /\ TrainIdle
    /\ pc = "r_validate"
    /\ fault = "none"
    /\ stem_opt \in valid_stems \cup {OtherStem}
    /\ multivocal \in {None, Some("lead_back")}
    /\ dereverb_enabled \in BOOLEAN
    /\ splitter \in {None, Some("orion")}
    /\ split_request = None

\* main: a validation raises ValueError, printed by the handler of __main__
RouteRejects ==
    /\ pc = "r_validate"
    /\ Rejected(stem_opt, multivocal)
    /\ pc' = "aborted"
    /\ fault' = "ValueError"
    /\ UNCHANGED <<batch_vars, sync_vars, route_vars, train_vars>>

\* main: both validations passed, batch_process is called with a file
RouteAccepts ==
    /\ pc = "r_validate"
    /\ ~Rejected(stem_opt, multivocal)
    /\ pc' = "r_upload"
    /\ UNCHANGED <<batch_vars, sync_vars, route_vars, train_vars, fault>>

RouteUploadOk ==
    /\ pc = "r_upload"
    /\ StepOk("upload", "r_split")
    /\ UNCHANGED <<batch_vars, route_vars, train_vars, fault, api, delete_opt,
                   sync_n, cur, processed, failed_at, polls, observed, tracks,
                   dl, delete_requests>>

\* upload_file raised: except Exception prints, no split is requested
RouteUploadFails ==
    /\ pc = "r_upload"
    /\ trace' = Append(trace, <<"upload", "failed">>)
    /\ pc' = "done"
    /\ UNCHANGED <<batch_vars, route_vars, train_vars, fault, api, delete_opt,
                   sync_n, cur, processed, failed_at, polls, observed, tracks,
                   dl, delete_requests>>

\* build_split_params and split_file: the request is posted; the service
\* answers 200 or not
RouteSplit ==
    /\ pc = "r_split"
    /\ split_request' =
         Some(SplitRequest(BuildSplitParams(stem_opt, dereverb_enabled,
                                            multivocal, splitter)))
    /\ \E outcome \in {"ok", "failed"} :
         trace' = Append(trace, <<"split", outcome>>)
    /\ pc' = "done"
    /\ UNCHANGED <<batch_vars, train_vars, fault, api, delete_opt, sync_n, cur,
                   processed, failed_at, polls, observed, tracks, dl,
                   delete_requests, stem_opt, multivocal, dereverb_enabled,
                   splitter>>

RouteNext ==
    \/ RouteRejects
    \/ RouteAccepts
    \/ RouteUploadOk
    \/ RouteUploadFails
    \/ RouteSplit

SpecRoute == RouteInit /\ [][RouteNext]_vars

(***************************************************************************)
(* Voice training (tools/api/lalalai_voice_train.py): main, once the files *)
(* are uploaded, starts the training, waits in check_training_status and   *)
(* activates the voice pack that it returned.                              *)
(***************************************************************************)
\* check_training_status: the timeout test is minutes_passed > 60 * 6
TimeoutMinutes == 360

\* what one status request can observe: urlopen raises, status "error", the
\* train id is not in voice_packs, a state other than success and error,
\* state success (with a pack_id, with an empty one, without), state error
TrainObservations ==
    {"raised", "status_error", "absent", "pending", "success",
     "success_empty_id", "success_no_id", "error"}

\* the observations that end the wait with a return
TrainReturning ==
    {"absent", "success", "success_empty_id", "success_no_id", "error"}

\* Variant: the branch of state error returns the pack id as well.
TrainReturnAlwaysPackId(obs) ==
    IF obs \in {"success", "error"} THEN Some("pack")
    ELSE IF obs = "success_empty_id" THEN Some("")
    ELSE None

\* the value check_training_status returns: pack_info.get("pack_id") after
\* state success, None otherwise
TrainReturn(obs) ==
    IF obs = "success" THEN Some("pack")
    ELSE IF obs = "success_empty_id" THEN Some("")
    ELSE None

TrainInit ==
    /\ BatchIdle
    /\ SyncIdle
    /\ RouteIdle
    /\ pc = "t_start"
    /\ fault = "none"
    /\ minutes_passed = 0
    /\ train_requests = 0
    /\ train_observed = "none"
    /\ voice_pack_id = None
    /\ activate_calls = 0

\* start_voice_pack_training returned a result with a train_id
TrainStartOk ==
    /\ pc = "t_start"
    /\ pc' = "t_check"
    /\ UNCHANGED <<batch_vars, sync_vars, route_vars, train_vars, fault>>

\* the result has no train_id: main returns 1
TrainStartNoId ==
    /\ pc = "t_start"
    /\ pc' = "done"
    /\ UNCHANGED <<batch_vars, sync_vars, route_vars, train_vars, fault>>

\* start_voice_pack_training raised
TrainStartFails ==
    /\ pc = "t_start"
    /\ pc' = "aborted"
    /\ fault' = "start"
    /\ UNCHANGED <<batch_vars, sync_vars, route_vars, train_vars>>

\* the head of while True: raise RuntimeError("Training check timeout ...")
TrainTimeout ==
    /\ pc = "t_check"
    /\ minutes_passed > TimeoutMinutes
    /\ pc' = "aborted"
    /\ fault' = "timeout"
    /\ UNCHANGED <<batch_vars, sync_vars, route_vars, train_vars>>

\* minutes_passed += 1 and the status request
TrainRequest(obs) ==
    /\ pc = "t_check"
    /\ ~(minutes_passed > TimeoutMinutes)
    /\ minutes_passed' = minutes_passed + 1
    /\ train_requests' = train_requests + 1
    /\ train_observed' = obs

\* Variant: the counter is incremented after the request, inside the try.
TrainPollRetryUncounted ==
    /\ pc = "t_check"
    /\ ~(minutes_passed > TimeoutMinutes)
    /\ train_requests' = train_requests + 1
    /\ \E obs \in {"raised", "status_error"} : train_observed' = obs
    /\ UNCHANGED <<batch_vars, sync_vars, route_vars, fault, pc,
                   minutes_passed, voice_pack_id, activate_calls>>

\* the request raised or the response has status "error": except Exception
\* prints, sleeps and the loop goes on
TrainPollRetry ==
    /\ \E obs \in {"raised", "status_error"} : TrainRequest(obs)
    /\ UNCHANGED <<batch_vars, sync_vars, route_vars, fault, pc,
                   voice_pack_id, activate_calls>>

\* the training is neither in state success nor error: time.sleep(60)
TrainPollWaits ==
    /\ TrainRequest("pending")
    /\ UNCHANGED <<batch_vars, sync_vars, route_vars, fault, pc,
                   voice_pack_id, activate_calls>>

\* check_training_status returns
TrainPollReturns ==
    /\ \E obs \in TrainReturning :
         /\ TrainRequest(obs)
         /\ voice_pack_id' = TrainReturn(obs)
    /\ pc' = "t_returned"
    /\ UNCHANGED <<batch_vars, sync_vars, route_vars, fault, activate_calls>>

\* main: if not voice_pack_id: return 1
TrainFailed ==
    /\ pc = "t_returned"
    /\ ~Truthy(voice_pack_id)
    /\ pc' = "done"
    /\ UNCHANGED <<batch_vars, sync_vars, route_vars, train_vars, fault>>

\* main: activate_voice_pack is called; what it or check_voice_pack_status
\* raises is caught and printed
TrainActivate ==
    /\ pc = "t_returned"
    /\ Truthy(voice_pack_id)
    /\ activate_calls' = activate_calls + 1
    /\ pc' = "done"
    /\ UNCHANGED <<batch_vars, sync_vars, route_vars, fault, minutes_passed,
                   train_requests, train_observed, voice_pack_id>>

TrainNext ==
    \/ TrainStartOk
    \/ TrainStartNoId
    \/ TrainStartFails
    \/ TrainTimeout
    \/ TrainPollRetry
    \/ TrainPollWaits
    \/ TrainPollReturns
    \/ TrainFailed
    \/ TrainActivate

SpecTrain == TrainInit /\ [][TrainNext]_vars

(***************************************************************************)
(* Properties.                                                             *)
(***************************************************************************)
Registry == DOMAIN batch_status

\* the state tag of a record is one of the two terminal tags
Terminal(rec) == rec.state \in {Some("success"), Some("error")}

Succeeded(rec) == rec.state = Some("success")
Failed(rec) == rec.state = Some("error")

\* the loop of batch_check has been entered and left
PollingStopped ==
    \/ pc \in {"report", "download", "done"}
    \/ pc = "aborted" /\ fault # "submit"

Attempts(id) == {type \in TrackTypes : downloads[<<id, type>>] > 0}

\* C1: a status check that fails (the request raises, or the response has
\* status "error") only abandons the iteration: the loop is still polling
\* afterwards, no record is marked failed and the run is not aborted.
C1_FailedCheckIsRetried ==
    last_check \in {"raised", "status_error"} =>
        /\ pc = "poll"
        /\ fault = "none"
        /\ \A id \in Registry : ~Failed(batch_status[id])

\* Scenario B: a drained batch of two jobs; one was reported success with both
\* locators and a duration above zero, its sibling was reported error and
\* nothing else.
ScenarioB ==
    /\ Cardinality(Registry) = 2
    /\ Drained(batch_status)
    /\ pc \notin {"poll", "apply"}
    /\ \E a, b \in Registry :
         /\ Succeeded(batch_status[a])
         /\ Truthy(batch_status[a].stem_track_url)
         /\ Truthy(batch_status[a].back_track_url)
         /\ batch_status[a].duration = Some(2)
         /\ ~Has(batch_status[a].message)
         /\ Failed(batch_status[b])
         /\ ~Has(batch_status[b].message)
         /\ ~Has(batch_status[b].end_time)

\* C2: when one job succeeded with both locators and its sibling failed, the
\* run is not aborted, and once it is over both tracks of the succeeded job
\* got a download attempt, the failed job got none and the report was printed.
C2_FailedJobIsNotFatal ==
    ScenarioB =>
        /\ pc # "aborted"
        /\ pc = "done" =>
             /\ Has(report)
             /\ \A id \in Registry :
                  Attempts(id) = IF Succeeded(batch_status[id])
                                 THEN TrackTypes ELSE {}

\* C3: the polling loop is left, by break or by an exception, only when every
\* record has a terminal state.
C3_StopsOnlyWhenDrained ==
    PollingStopped => \A id \in Registry : Terminal(batch_status[id])

\* C4: once a record is finished with state success or error, no step changes
\* its state: a succeeded record never becomes failed, nor a failed one
\* succeeded.
C4_TerminalStateIsFinal ==
    [][\A id \in Registry :
         batch_status[id].finished /\ Terminal(batch_status[id]) =>
             batch_status'[id].state = batch_status[id].state]_vars

\* the identifiers of the inputs whose upload succeeded, as a set
UploadedIds == {FileId(f) : f \in (1..n_files) \ upload_failed}

\* C5: once the registry is seeded it holds exactly one record per input whose
\* upload succeeded and none for an input whose upload failed, and a printed
\* report lists exactly those jobs.
C5_OneRecordPerUploadedInput ==
    submit_status = "accepted" =>
        /\ Cardinality(Registry) = n_files - Cardinality(upload_failed)
        /\ Registry = UploadedIds
        /\ Has(report) =>
             {Get(report).items[i] : i \in 1..Len(Get(report).items)} = Registry

C5_Witness ==
    /\ submit_status = "accepted"
    /\ upload_failed # {}
    /\ Registry # {}
    /\ Has(report)

\* C6: every file of the directory gets exactly one upload attempt whichever
\* uploads failed before it, and the identifier of a file whose upload failed
\* is in neither files_ids nor the submit request.
C6_EveryFileUploadedOnce ==
    /\ \A f \in Files : upload_attempts[f] <= 1
    /\ pc # "upload" => \A f \in 1..n_files : upload_attempts[f] = 1
    /\ \A f \in upload_failed :
         /\ \A i \in 1..Len(files_ids) : files_ids[i] # FileId(f)
         /\ Has(submitted) =>
              \A i \in 1..Len(Get(submitted)) : Get(submitted)[i] # FileId(f)

C6_Witness ==
    /\ Has(submitted)
    /\ \E f \in upload_failed, g \in 1..n_files :
         /\ f < g
         /\ g \notin upload_failed
         /\ upload_attempts[g] = 1

\* C7: when the submit request is rejected the registry stays empty, no status
\* request is issued and no download is attempted.
C7_RejectedSubmitIsFatal ==
    submit_status = "rejected" =>
        /\ pc = "aborted"
        /\ Registry = {}
        /\ check_calls = 0
        /\ \A k \in DOMAIN downloads : downloads[k] = 0

C7_Witness ==
    /\ submit_status = "rejected"
    /\ files_ids # <<>>
    /\ fault = "submit"

\* the identifiers of the uploaded files among the first n, in input order
RECURSIVE UploadedInOrder(_)
UploadedInOrder(n) ==
    IF n = 0 THEN <<>>
    ELSE IF n \in upload_failed THEN UploadedInOrder(n - 1)
    ELSE Append(UploadedInOrder(n - 1), FileId(n))

\* C8: the submit request is issued exactly once, after every file of the
\* directory had its upload attempt, and carries the identifiers of the
\* successful uploads in input order.
C8_OneSubmitAfterAllUploads ==
    /\ submit_calls <= 1
    /\ (submit_calls = 1) <=> (pc # "upload")
    /\ submit_calls = 1 =>
         /\ \A f \in 1..n_files : upload_attempts[f] = 1
         /\ submitted = Some(UploadedInOrder(n_files))

C8_Witness ==
    /\ submit_calls = 1
    /\ Has(submitted)
    /\ Len(Get(submitted)) >= 2

\* C9: no download is attempted for a record whose state is error.
C9_NoDownloadForFailedJob ==
    \A id \in Registry : Failed(batch_status[id]) => Attempts(id) = {}

\* C10: every locator of the registry gets exactly one download attempt,
\* whatever the outcome of the other attempts: each record that batch_download
\* has visited was tried once for each of its locators, and a record without
\* a locator was not tried.
C10_EveryLocatorTriedOnce ==
    pc \in {"download", "done"} =>
        \A i \in 1..Len(files_ids) : \A type \in TrackTypes :
            downloads[<<files_ids[i], type>>] =
                IF i < next_download
                   /\ Truthy(TrackUrl(batch_status[files_ids[i]], type))
                THEN 1 ELSE 0

C10_Witness ==
    /\ pc = "done"
    /\ \E a, b \in Registry :
         /\ a < b
         /\ <<a, "stem">> \in download_failed
         /\ downloads[<<a, "back">>] = 1
         /\ downloads[<<b, "stem">>] = 1
         /\ downloads[<<b, "back">>] = 1

\* the identifiers carried by the submit request, as a set
SubmittedIds == {Get(submitted)[i] : i \in 1..Len(Get(submitted))}

\* C11: the keys of the registry are exactly the submitted identifiers, before
\* and after every call of check_multiple_files; an entry of the response for
\* an identifier that is not in the registry creates no record.
C11_RegistryKeysAreSubmittedIds ==
    /\ submit_status = "accepted" => Registry = SubmittedIds
    /\ ForeignId \notin Registry

C11_Witness ==
    /\ pc = "called"
    /\ ForeignId \in DOMAIN response
    /\ response[ForeignId].task = Some("success")
    /\ \E id \in Registry : id \in DOMAIN response

\* C12: a call of check_multiple_files leaves the record of every identifier
\* that the response omits exactly as it was, and the request of the next call
\* names that identifier again.
C12_OmittedRecordUntouched ==
    [][/\ pc' = "called" =>
            \A id \in Registry \ DOMAIN response' :
                batch_status'[id] = batch_status[id]
       /\ pc' = "repeated" =>
            (Registry \ DOMAIN response) \subseteq last_query']_vars

C12_Witness ==
    /\ pc = "repeated"
    /\ \E id, other \in Registry :
         /\ id \notin DOMAIN response
         /\ ~batch_status[id].finished
         /\ id \in last_query
         /\ other \in DOMAIN response
         /\ batch_status[other].finished

\* C13: calling check_multiple_files again with the same response changes no
\* record.
C13_RepeatedCheckChangesNothing ==
    [][pc = "called" /\ pc' = "repeated" => batch_status' = batch_status]_vars

C13_Witness ==
    /\ pc = "repeated"
    /\ \E id, other \in Registry \cap DOMAIN response :
         /\ response[id].task = Some("success")
         /\ batch_status[id].end_time = Some(now - 1)
         /\ response[other].task = None

\* Scenario D: every status check succeeded, the batch is drained and every
\* job succeeded with duration 0.
ScenarioD ==
    /\ submit_status = "accepted"
    /\ last_check = "ok"
    /\ pc \notin {"poll", "apply"}
    /\ Drained(batch_status)
    /\ \A id \in Registry :
         Succeeded(batch_status[id]) /\ batch_status[id].duration = Some(0)

\* C14: when the total duration over the succeeded jobs of a drained batch is
\* 0, computing the report raises nothing and the printed average speed is the
\* undefined marker.
C14_ZeroDurationReportsUndef ==
    ScenarioD =>
        /\ fault = "none"
        /\ Has(report) => Get(report).avg_undef

\* C15: a snapshot whose task state is none of the known ones is not silently
\* ignored: the call changes the record or raises.
C15_UnknownStateIsSurfaced ==
    [][pc' = "called" =>
          \A id \in Registry \cap DOMAIN response' :
              (/\ Has(response'[id].task)
               /\ Get(response'[id].task) \notin KnownTaskStates)
              => (batch_status'[id] # batch_status[id] \/ fault' # "none")]_vars

\* C16: a record whose state is success has its stem track and back track
\* locators, its duration and its end_time.
C16_SucceededIsFullyPopulated ==
    \A id \in Registry :
        Succeeded(batch_status[id]) =>
            /\ Has(batch_status[id].stem_track_url)
            /\ Has(batch_status[id].back_track_url)
            /\ Has(batch_status[id].duration)
            /\ Has(batch_status[id].end_time)

C16_Witness ==
    /\ pc = "report"
    /\ \E a, b \in Registry :
         /\ Succeeded(batch_status[a])
         /\ Has(batch_status[a].duration)
         /\ Failed(batch_status[b])
         /\ Has(batch_status[b].end_time)
         /\ Has(batch_status[b].stem_track_url)
         /\ ~Has(batch_status[b].duration)

\* C17: a record carries an error detail exactly when its state is error.
C17_ErrorDetailIffFailed ==
    \A id \in Registry :
        Failed(batch_status[id]) <=> Has(batch_status[id].message)

\* C18: every finished record has an end_time, and an end_time once written
\* never changes.
C18_CompletedAtSetOnce ==
    [][/\ \A id \in DOMAIN batch_status' :
            batch_status'[id].finished => Has(batch_status'[id].end_time)
       /\ \A id \in Registry :
            Has(batch_status[id].end_time) =>
                batch_status'[id].end_time = batch_status[id].end_time]_vars

\* C19: a record without a state (as seeded) that is reported in progress gets
\* a state that is not terminal.
C19_ProgressMarksInProgress ==
    [][pc' = "called" =>
          \A id \in Registry \cap DOMAIN response' :
              (/\ response'[id].task = Some("progress")
               /\ ~Has(batch_status[id].state))
              => (/\ Has(batch_status'[id].state)
                  /\ ~Terminal(batch_status'[id]))]_vars

\* C20: a status request names no identifier whose record is already
\* finished.
C20_OnlyOutstandingQueried ==
    [][check_calls' # check_calls =>
          \A id \in last_query' : ~batch_status[id].finished]_vars

\* C21: when no status check fails and the service reports success or error
\* for every job of the registry, the polling loop is eventually left with
\* every record finished in a terminal state.
C21_DrainsWhenAllReported ==
    <>(/\ pc \notin {"upload", "poll", "apply"}
       /\ \A id \in Registry :
            batch_status[id].finished /\ Terminal(batch_status[id]))

C21_Witness ==
    /\ pc = "report"
    /\ check_calls >= 2
    /\ \E a, b \in Registry :
         /\ batch_status[a].finished /\ Succeeded(batch_status[a])
         /\ batch_status[a].end_time = Some(1)
         /\ batch_status[b].finished /\ Failed(batch_status[b])
         /\ ~Has(batch_status[b].message)

\* the identifiers of the jobs that ended in state success
SucceededIds == {id \in Registry : Succeeded(batch_status[id])}

\* the identifiers of the item lines of the printed report
ReportedIds == {Get(report).items[i] : i \in 1..Len(Get(report).items)}

\* every status check succeeded and the polling loop was left by its break
DrainedRun ==
    /\ submit_status = "accepted"
    /\ last_check = "ok"
    /\ pc \notin {"poll", "apply"}
    /\ Drained(batch_status)

\* C22: the report of a drained batch is computed over the succeeded jobs
\* only: reading a failed job raises nothing, and the item lines of a printed
\* report are those of the succeeded jobs.
C22_ReportCoversSucceededOnly ==
    DrainedRun =>
        /\ fault # "KeyError"
        /\ Has(report) => ReportedIds = SucceededIds

\* C23: a pass of the for loop of check_multiple_files changes no record other
\* than the one of the entry it reads.
C23_SiblingsUntouched ==
    [][(pc = "apply" /\ cursor' = cursor + 1) =>
          \A id \in Registry :
              id # Candidates[cursor] => batch_status'[id] = batch_status[id]]_vars

C23_Witness ==
    /\ pc = "apply"
    /\ Len(files_ids) = 2
    /\ cursor = 3
    /\ Succeeded(batch_status[files_ids[1]])
    /\ batch_status[files_ids[1]].end_time = Some(now)
    /\ Failed(batch_status[files_ids[2]])
    /\ Has(batch_status[files_ids[2]].message)

\* the identifiers whose record is not finished
Outstanding == {id \in Registry : ~batch_status[id].finished}

\* C24: every iteration of the polling loop issues exactly one status request,
\* whatever the number of records, and the request names every outstanding
\* identifier.
C24_OneRequestPerIteration ==
    [][/\ (pc = "poll" /\ pc' # "poll") => check_calls' = check_calls + 1
       /\ check_calls' # check_calls =>
            /\ pc = "poll"
            /\ check_calls' = check_calls + 1
            /\ Outstanding \subseteq last_query']_vars

C24_Witness ==
    /\ pc = "apply"
    /\ check_calls = 2
    /\ Cardinality(Registry) = 2
    /\ last_query = Registry

Downloading == \E k \in DOMAIN downloads : downloads[k] > 0

\* C25: the stages follow the order submit and seed, poll until drained,
\* downloads, report: no status request before the submit is accepted, no
\* download before the registry is drained, and no report before every record
\* was visited by batch_download.
C25_ReportComesLast ==
    /\ check_calls > 0 => submit_status = "accepted"
    /\ Downloading => Drained(batch_status)
    /\ Has(report) => next_download > Len(files_ids)

\* C26: an end_time, a locator or a duration once written to a record is not
\* changed by any later call of check_multiple_files.
C26_TerminalFieldsAreFinal ==
    [][\A id \in Registry :
         /\ Has(batch_status[id].end_time) =>
              batch_status'[id].end_time = batch_status[id].end_time
         /\ Has(batch_status[id].stem_track_url) =>
              batch_status'[id].stem_track_url = batch_status[id].stem_track_url
         /\ Has(batch_status[id].back_track_url) =>
              batch_status'[id].back_track_url = batch_status[id].back_track_url
         /\ Has(batch_status[id].duration) =>
              batch_status'[id].duration = batch_status[id].duration]_vars

C26_Witness ==
    /\ pc = "called"
    /\ \E id \in Registry \cap DOMAIN response :
         /\ response[id].task = Some("success")
         /\ response[id].split.duration = Some(0)
         /\ batch_status[id].duration = Some(2)
         /\ batch_status[id].end_time = Some(1)

\* C27: from the first download attempt on, every record is finished in a
\* terminal state and no status request is issued.
C27_DownloadsOnlyAfterDrain ==
    [][(\E k \in DOMAIN downloads : downloads'[k] > 0) =>
          /\ pc \in {"download", "done"}
          /\ \A id \in Registry :
               batch_status[id].finished /\ Terminal(batch_status[id])
          /\ check_calls' = check_calls]_vars

C27_Witness ==
    /\ pc = "done"
    /\ Downloading
    /\ check_calls >= 2
    /\ Cardinality(Registry) = 2

\* C28: the state of a record is success or error exactly when its finished
\* flag is true.
C28_StateTagAgreesWithFinished ==
    \A id \in Registry :
        Terminal(batch_status[id]) <=> batch_status[id].finished

\* C29: a record is seeded with finished false, and no step sets the finished
\* flag of a record back to false.
C29_FinishedIsMonotonic ==
    [][/\ \A id \in DOMAIN batch_status' \ Registry :
            ~batch_status'[id].finished
       /\ \A id \in Registry :
            batch_status[id].finished => batch_status'[id].finished]_vars

C29_Witness ==
    \E id \in Registry :
        /\ batch_status[id].finished
        /\ Failed(batch_status[id])
        /\ Has(batch_status[id].message)
        /\ Has(batch_status[id].end_time)
        /\ Has(batch_status[id].duration)

\* C30: when no upload succeeded the submit request is still issued once,
\* with no identifier; the registry is empty, no download is attempted and the
\* report raises nothing; when the service accepts the submit and answers the
\* status request, the loop is left after exactly one request and the report
\* prints no item and the undefined marker for the average speed.
C30_EmptyBatch ==
    (pc # "upload" /\ files_ids = <<>>) =>
        /\ submit_calls = 1
        /\ submitted = Some(<<>>)
        /\ Registry = {}
        /\ check_calls <= 1
        /\ ~Downloading
        /\ fault \in {"none", "submit", "check"}
        /\ (submit_status = "accepted" /\ last_check = "ok" /\ pc # "apply") =>
             /\ pc \in {"report", "download", "done"}
             /\ check_calls = 1
             /\ pc \in {"download", "done"} =>
                  /\ Has(report)
                  /\ Get(report).avg_undef
                  /\ Get(report).items = <<>>

C30_Witness ==
    /\ pc = "done"
    /\ n_files = 2
    /\ files_ids = <<>>
    /\ check_calls = 1
    /\ Has(report)

\* the steps of the current file that are in its trace, and the last one
TraceSteps == {trace[i][1] : i \in 1..Len(trace)}
LastStep == trace[Len(trace)]

\* every step of the trace before position k returned
AllOkBefore(k) == \A i \in 1..(k - 1) : trace[i][2] = "ok"

\* C31: in synchronous mode no failure of a step ends the run: every file the
\* loop has reached had exactly one call of batch_process_for_file, no file
\* after it had one yet, and when the loop is over every regular file of the
\* directory had its call.
C31_EveryFileProcessedOnce ==
    /\ fault = "none"
    /\ pc # "aborted"
    /\ \A f \in Files :
         processed[f] = IF f < cur \/ (f = cur /\ pc # "s_file" /\ f <= sync_n)
                        THEN 1 ELSE 0
    /\ pc = "done" => cur = sync_n + 1

C31_Witness ==
    /\ pc = "done"
    /\ sync_n = 2
    /\ failed_at[1] = "check"
    /\ failed_at[2] = "download"
    /\ processed[2] = 1

\* the order of the steps of the legacy batch_process_for_file
LegacyOrder == <<"upload", "split", "check", "download", "download">>

\* C32: the steps of a file of the legacy client are run in the order upload,
\* split, check, stem track download, back track download, each only after
\* the step before it returned, and a download only after check_file observed
\* success.
C32_StepsInOrder ==
    api = "legacy" =>
        /\ Len(trace) <= Len(LegacyOrder)
        /\ \A i \in 1..Len(trace) : trace[i][1] = LegacyOrder[i]
        /\ AllOkBefore(Len(trace))
        /\ ("download" \in TraceSteps \/ pc = "s_download") =>
               observed = "success"

C32_Witness ==
    /\ api = "legacy"
    /\ pc = "s_file"
    /\ trace = <<<<"upload", "ok">>, <<"split", "ok">>, <<"check", "ok">>,
                 <<"download", "failed">>>>

\* the number of tracks of the current file that were downloaded
Downloaded == Cardinality({i \in 1..Len(trace) : trace[i] = <<"download", "ok">>})

\* C33: a delete request is sent at most once per source, only by the v1
\* client run with --delete, only for a file none of whose earlier steps
\* failed, and only after check_task observed success and every track of the
\* result was downloaded.
C33_DeleteOnlyAfterAllDownloads ==
    /\ \A f \in Files :
         /\ delete_requests[f] <= 1
         /\ delete_requests[f] > 0 =>
              /\ api = "v1"
              /\ delete_opt
              /\ failed_at[f] \in {"none", "delete"}
    /\ ("delete" \in TraceSteps \/ pc = "s_delete") =>
         /\ observed = "success"
         /\ Has(tracks)
         /\ Downloaded = Get(tracks)
         /\ \A i \in 1..Len(trace) :
              trace[i][1] # "delete" => trace[i][2] = "ok"

C33_Witness ==
    /\ pc = "done"
    /\ delete_opt
    /\ sync_n = 2
    /\ delete_requests[1] = 1
    /\ failed_at[1] = "none"
    /\ failed_at[2] = "download"
    /\ delete_requests[2] = 0

\* C34: check_task of the v1 client polls again only after it observed status
\* progress, returns only after it observed status success, and every other
\* observation ends it with an exception.
C34_CheckTaskOutcomes ==
    api = "v1" =>
        /\ (pc = "s_check" /\ polls > 0) => observed = "progress"
        /\ <<"check", "ok">> \in {trace[i] : i \in 1..Len(trace)} =>
               observed = "success"
        /\ (trace # <<>> /\ observed \in V1Observations \ {"success", "progress"})
               => LastStep = <<"check", "failed">>

C34_Witness ==
    /\ api = "v1"
    /\ polls >= 2
    /\ observed = "error"
    /\ trace # <<>>
    /\ LastStep = <<"check", "failed">>

\* C35: check_training_status issues at most TimeoutMinutes + 1 = 361 status
\* requests, every request counted whether it failed or not, and raises the
\* timeout error only once that many were issued.
C35_TrainingPollsAreBounded ==
    /\ train_requests = minutes_passed
    /\ train_requests <= TimeoutMinutes + 1
    /\ fault = "timeout" => train_requests = TimeoutMinutes + 1

C35_Witness ==
    /\ fault = "timeout"
    /\ train_requests = 361
    /\ train_observed = "raised"

\* C36: activate_voice_pack is called at most once and only after
\* check_training_status observed state success and returned a pack id; after
\* it observed no entry for the train id, state error, or success without a
\* pack id, it returned None and no activation follows.
C36_ActivationOnlyAfterSuccess ==
    /\ activate_calls <= 1
    /\ activate_calls > 0 =>
         /\ train_observed = "success"
         /\ Truthy(voice_pack_id)
    /\ train_observed \in {"absent", "error", "success_no_id"} =>
         /\ voice_pack_id = None
         /\ activate_calls = 0
         /\ pc \in {"t_returned", "done"}

C36_Witness ==
    /\ pc = "done"
    /\ activate_calls = 1
    /\ train_requests >= 2
    /\ train_observed = "success"

\* the endpoint a stem of the enumeration is to be sent to
EndpointOf(s) ==
    IF s = "voice" THEN "split/voice_clean/"
    ELSE IF s = "music" THEN "split/demuser/"
    ELSE "split/stem_separator/"

\* C37: a split request goes to the endpoint of its stem (voice to
\* voice_clean, music to demuser, the nine others to stem_separator) with
\* that stem in its presets, carries the multivocal preset only for the stem
\* vocals, and a stem outside the enumeration is rejected with nothing
\* uploaded and nothing requested.
C37_StemRouting ==
    /\ Has(split_request) =>
         /\ stem_opt \in valid_stems
         /\ Get(split_request).endpoint = EndpointOf(stem_opt)
         /\ Get(split_request).presets.stem = Some(stem_opt)
         /\ Has(Get(split_request).presets.multivocal) => stem_opt = "vocals"
    /\ stem_opt \notin valid_stems =>
         /\ pc \in {"r_validate", "aborted"}
         /\ trace = <<>>
         /\ split_request = None

C37_Witness ==
    /\ Has(split_request)
    /\ stem_opt = "music"
    /\ Get(split_request).endpoint = "split/demuser/"

====
